---- MODULE Spec2Model ----
(***************************************************************************)
(* Verification model of the vs-components package.                        *)
(*                                                                         *)
(* Part 1: the useScrollspy hook (src/src/hooks/useScrollspy.ts).          *)
(*                                                                         *)
(* The hook instance is a state machine driven by React (first effect run, *)
(* re-render, unmount) and by the IntersectionObserver (batches of         *)
(* entries delivered to observerCallback).  A re-render is one step: React *)
(* compares the dependency array, runs the previous cleanup (if the        *)
(* previous effect run returned one) and then the effect body.             *)
(*                                                                         *)
(* The IntersectionObserver itself is a host capability.  It is modelled   *)
(* by its contract: the constructor throws on an invalid init dictionary   *)
(* (or when the global is missing), observe() adds a target, disconnect()  *)
(* drops every target and is a no-op on a disconnected observer, and a     *)
(* batch is delivered only by a connected observer, about its targets, in  *)
(* observation order, at most one entry per target.                        *)
(***************************************************************************)
EXTENDS Integers, Sequences, FiniteSets, TLC

(***************************************************************************)
(* Bounds and input universes                                              *)
(***************************************************************************)

\* Longest identifier sequence passed to the hook.
MaxIds == 2

\* Element ids used by the host page.  "a,a" is a legal HTML id that
\* contains the separator used by itemIds.join(",").
IdUniverse == {"a", "a,a"}

\* boundingClientRect.top values carried by entries.
Tops == {5, 40}

\* The value of activeId / a ref before anything is stored in it.
Null == "<null>"

RECURSIVE SeqsUpTo(_, _)
SeqsUpTo(S, n) ==
    IF n = 0 THEN {<<>>}
    ELSE LET shorter == SeqsUpTo(S, n - 1)
         IN  shorter \cup {Append(s, x) : s \in {t \in shorter : Len(t) = n - 1}, x \in S}

ItemIdSeqs == SeqsUpTo(IdUniverse, MaxIds)

Range(s) == {s[i] : i \in 1..Len(s)}

(***************************************************************************)
(* ScrollspyOptions (useScrollspy.ts 8-27).  An options value is either    *)
(* undefined or an object; an object is the sequence of its own properties *)
(* in insertion order, which is the order JSON.stringify emits.            *)
(***************************************************************************)

DEFAULT_ROOT_MARGIN == "-20% 0px -80% 0px"

DEFAULT_THRESHOLD == 0

RootMarginProp(v) == [key |-> "rootMargin", str |-> v, num |-> 0]

ThresholdProp(n) == [key |-> "threshold", str |-> "", num |-> n]

UndefinedOptions == [defined |-> FALSE, props |-> <<>>]

Obj(props) == [defined |-> TRUE, props |-> props]

\* undefined, one object written with its two keys in either order, and an
\* object whose threshold is outside [0,1].
OptionsUniverse ==
    { UndefinedOptions,
      Obj(<<RootMarginProp("0px"), ThresholdProp(1)>>),
      Obj(<<ThresholdProp(1), RootMarginProp("0px")>>),
      Obj(<<ThresholdProp(2)>>) }

\* Equality of two options values by content: both undefined, or objects
\* with the same properties and values (property order is not content).
OptionsEqualByValue(o1, o2) ==
    /\ o1.defined = o2.defined
    /\ Range(o1.props) = Range(o2.props)

HasProp(o, k) == \E i \in 1..Len(o.props) : o.props[i].key = k

PropOf(o, k) == o.props[CHOOSE i \in 1..Len(o.props) : o.props[i].key = k]

\* const { rootMargin = DEFAULT_ROOT_MARGIN, threshold = DEFAULT_THRESHOLD } = options || {}
RootMarginOf(o) == IF HasProp(o, "rootMargin") THEN PropOf(o, "rootMargin").str ELSE DEFAULT_ROOT_MARGIN

ThresholdOf(o) == IF HasProp(o, "threshold") THEN PropOf(o, "threshold").num ELSE DEFAULT_THRESHOLD

(***************************************************************************)
(* The dependency array of the effect (useScrollspy.ts 64, 143)            *)
(***************************************************************************)

\* Array.prototype.join(","): the elements separated by commas.
RECURSIVE Join(_)
Join(ids) ==
    IF Len(ids) = 0 THEN ""
    ELSE IF Len(ids) = 1 THEN ids[1]
    ELSE ids[1] \o "," \o Join(Tail(ids))

NumStr(n) == CASE n = 0 -> "0" [] n = 1 -> "1" [] n = 2 -> "2" [] OTHER -> "?"

PropStr(p) ==
    IF p.key = "rootMargin"
    THEN "\"rootMargin\":\"" \o p.str \o "\""
    ELSE "\"threshold\":" \o NumStr(p.num)

RECURSIVE PropsStr(_)
PropsStr(props) ==
    IF Len(props) = 0 THEN ""
    ELSE IF Len(props) = 1 THEN PropStr(props[1])
    ELSE PropStr(props[1]) \o "," \o PropsStr(Tail(props))

\* JSON.stringify(options): undefined for undefined, else the object's
\* properties in insertion order.
JSONStringify(o) == IF o.defined THEN "{" \o PropsStr(o.props) \o "}" ELSE "undefined"

\* [itemIds.join(","), memoizedOptions]
EffectDeps(ids, opts) == <<Join(ids), JSONStringify(opts)>>

(***************************************************************************)
(* State                                                                   *)
(***************************************************************************)

VARIABLES
    hasWindow,      \* typeof window / document is not "undefined"
    hasIO,          \* the global IntersectionObserver exists
    lifecycle,      \* "rendered" (before the first effect run), "mounted", "unmounted"
    itemIds,        \* the itemIds argument of the latest render
    options,        \* the options argument of the latest render
    activeId,       \* useState<string | null>(null)
    observerRef,    \* useRef<IntersectionObserver | null>(null)
    observedElementsRef, \* useRef(new Map()): the keys, in insertion order
    cleanup,        \* the latest effect run returned its cleanup function
    orphans,        \* connected observers no longer held by observerRef (their targets)
    threw,          \* an exception escaped from the effect or its cleanup
    last            \* what the latest step was (history, read only by the properties)

\* NavBar (src/src/components/NavBar.tsx): scroll-driven state.
VARIABLES
    scrollThreshold,        \* prop scrollThreshold
    scrollTransitionRange,  \* prop scrollTransitionRange
    scrollY,                \* the scrollY motion value: [current, prev]
    isHidden,               \* useState(false), hide-on-scroll
    progress,               \* progress of the useTransform outputs: [num, den]
    navLast                 \* history of the latest scroll sample

\* NavBar and MobileMenu: the mobile menu.
VARIABLES
    menuMounted,            \* the NavBar with its MobileMenu is mounted
    isMobileMenuOpen,       \* useState(false)
    isAnimating,            \* useState(false)
    popover,                \* the popover under AnimatePresence
    innerWidth,             \* window.innerWidth
    focus,                  \* the element holding the keyboard focus
    bodyOverflow,           \* document.body.style.overflow
    menuLast                \* history of the latest menu step

scrollspyVars == <<hasWindow, hasIO, lifecycle, itemIds, options, activeId, observerRef,
                   observedElementsRef, cleanup, orphans, threw, last>>

navVars == <<scrollThreshold, scrollTransitionRange, scrollY, isHidden, progress, navLast>>

menuVars == <<menuMounted, isMobileMenuOpen, isAnimating, popover, innerWidth, focus, bodyOverflow,
              menuLast>>

\* DarkModeToggle.
VARIABLES
    mounted,                \* React.useState(false)
    resolvedTheme,          \* useTheme().resolvedTheme
    requestedTheme,         \* the argument of the latest setTheme call
    themeLast               \* history of the two latest toggle steps

themeVars == <<mounted, resolvedTheme, requestedTheme, themeLast>>

\* NavBar: the props that feed the scrollspy and the menus.
VARIABLES
    menuItems,              \* the href of each menu item, as its characters
    enableScrollspy,        \* the enableScrollspy prop
    itemsLast               \* history of the latest render with new props

itemVars == <<menuItems, enableScrollspy, itemsLast>>

\* The page: the observed sections that intersect the activation band now.
VARIABLES
    band

bandVars == <<band>>

vars == <<scrollspyVars, navVars, menuVars, themeVars, itemVars, bandVars>>

(***************************************************************************)
(* The IntersectionObserver capability                                     *)
(***************************************************************************)

NoObserver == [exists |-> FALSE, connected |-> FALSE, targets |-> <<>>]

\* new IntersectionObserver(cb, init) followed by observe() of each element.
NewObserver(targets) == [exists |-> TRUE, connected |-> TRUE, targets |-> targets]

\* observer.disconnect(): stop watching every target.
Disconnect(o) == [o EXCEPT !.connected = FALSE, !.targets = <<>>]

\* The constructor throws a ReferenceError when the global is missing, a
\* SyntaxError on an unparsable rootMargin and a RangeError on a threshold
\* outside [0,1].
ConstructorThrows(rootMargin, threshold) ==
    \/ ~hasIO
    \/ rootMargin \notin {DEFAULT_ROOT_MARGIN, "0px"}
    \/ threshold \notin 0..1

\* document.getElementById(id) against the elements present in the page.
GetElementById(doc, id) == id \in doc

\* An IntersectionObserverEntry: target.id, isIntersecting, boundingClientRect.top.
EntryShapes == [isIntersecting : BOOLEAN, top : Tops]

RECURSIVE MakeEntries(_, _, _)
MakeEntries(targets, present, shape) ==
    IF Len(targets) = 0 THEN <<>>
    ELSE LET i    == Len(targets)
             rest == MakeEntries(SubSeq(targets, 1, i - 1), present, shape)
         IN  IF i \in present
             THEN Append(rest, [target |-> targets[i],
                                isIntersecting |-> shape[i].isIntersecting,
                                top |-> shape[i].top])
             ELSE rest

\* The batches an observer with these targets can deliver.
Batches(targets) ==
    { MakeEntries(targets, present, shape) :
        present \in SUBSET (1..Len(targets)),
        shape \in [1..Len(targets) -> EntryShapes] }

(***************************************************************************)
(* The hook (useScrollspy.ts 57-146).  The operators work on a record of   *)
(* the hook's state; "redundant" notes that disconnect() was called on an  *)
(* observer that was already disconnected.                                 *)
(***************************************************************************)

Hook ==
    [activeId |-> activeId, observerRef |-> observerRef,
     observed |-> observedElementsRef, cleanup |-> cleanup,
     orphans |-> orphans, threw |-> threw, redundant |-> FALSE]

\* setActiveId: React drops the update of a component that is not mounted.
SetActiveId(h, v) == IF lifecycle = "unmounted" THEN h ELSE [h EXCEPT !.activeId = v]

\* Variant of IsClient: the guard of line 68 left out.
IsClient_NoGuard == TRUE

\* Line 68: the effect runs only where window and document exist.
IsClient == hasWindow

\* Variant of DisconnectCurrent: disconnect() called without the null check.
DisconnectCurrent_NoNullCheck(h) ==
    IF h.observerRef.exists
    THEN [h EXCEPT !.observerRef = Disconnect(@),
                   !.redundant = @ \/ ~h.observerRef.connected]
    ELSE [h EXCEPT !.threw = TRUE]

\* Lines 76-78 and 137-139: if (observerRef.current) observerRef.current.disconnect()
DisconnectCurrent(h) ==
    IF h.observerRef.exists
    THEN [h EXCEPT !.observerRef = Disconnect(@),
                   !.redundant = @ \/ ~h.observerRef.connected]
    ELSE h

\* Variant of Cleanup: a cleanup that does not disconnect.
Cleanup_NoDisconnect(h) == h

\* Lines 135-140: the cleanup function returned by the effect.
Cleanup(h) == DisconnectCurrent(h)

\* Variant of PopulateObserved: every id is set, resolved or not, repeated or not.
PopulateObserved_All(ids, doc) == ids

\* Lines 79-90: clear the map, then set every id that resolves to an element
\* (a repeated id keeps its first position).
RECURSIVE PopulateObserved(_, _)
PopulateObserved(ids, doc) ==
    IF Len(ids) = 0 THEN <<>>
    ELSE LET n    == Len(ids)
             rest == PopulateObserved(SubSeq(ids, 1, n - 1), doc)
         IN  IF GetElementById(doc, ids[n]) /\ ids[n] \notin Range(rest)
             THEN Append(rest, ids[n])
             ELSE rest

\* Line 110: intersectingEntries.sort((a, b) => a.top - b.top), a stable sort.
RECURSIVE InsertByTop(_, _)
InsertByTop(sorted, e) ==
    IF Len(sorted) = 0 THEN <<e>>
    ELSE IF sorted[Len(sorted)].top - e.top <= 0 THEN Append(sorted, e)
    ELSE Append(InsertByTop(SubSeq(sorted, 1, Len(sorted) - 1), e), sorted[Len(sorted)])

RECURSIVE SortByTop(_)
SortByTop(entries) ==
    IF Len(entries) = 0 THEN <<>>
    ELSE InsertByTop(SortByTop(SubSeq(entries, 1, Len(entries) - 1)), entries[Len(entries)])

IsIntersecting(e) == e.isIntersecting

\* Variant of ObserverCallback: a selection is stored only while none is held.
ObserverCallback_KeepFirst(h, entries) ==
    LET intersectingEntries == SelectSeq(entries, IsIntersecting)
    IN  IF Len(intersectingEntries) > 0 /\ h.activeId = Null
        THEN SetActiveId(h, SortByTop(intersectingEntries)[1].target)
        ELSE h

\* Variant of ObserverCallback: the sort of line 110 left out.
ObserverCallback_NoSort(h, entries) ==
    LET intersectingEntries == SelectSeq(entries, IsIntersecting)
    IN  IF Len(intersectingEntries) > 0
        THEN SetActiveId(h, intersectingEntries[1].target)
        ELSE h

\* Variant of ObserverCallback: line 114 (setActiveId(null)) enabled.
ObserverCallback_ClearOnEmpty(h, entries) ==
    LET intersectingEntries == SelectSeq(entries, IsIntersecting)
    IN  IF Len(intersectingEntries) > 0
        THEN SetActiveId(h, SortByTop(intersectingEntries)[1].target)
        ELSE SetActiveId(h, Null)

\* Lines 102-118: observerCallback.
ObserverCallback(h, entries) ==
    LET intersectingEntries == SelectSeq(entries, IsIntersecting)
    IN  IF Len(intersectingEntries) > 0
        THEN SetActiveId(h, SortByTop(intersectingEntries)[1].target)
        ELSE h

\* Variant of NothingToObserve: line 94 (setActiveId(null)) left out.
NothingToObserve_NoReset(h) == [h EXCEPT !.cleanup = FALSE]

\* Lines 92-96: nothing resolved.
NothingToObserve(h) == [SetActiveId(h, Null) EXCEPT !.cleanup = FALSE]

\* Variant of CreateObserver: the catch block without setActiveId(null).
CreateObserver_NoResetOnError(h, opts) ==
    IF ConstructorThrows(RootMarginOf(opts), ThresholdOf(opts))
    THEN [h EXCEPT !.cleanup = TRUE]
    ELSE [h EXCEPT !.observerRef = NewObserver(h.observed),
                   !.orphans = IF h.observerRef.connected
                               THEN @ \cup {h.observerRef.targets} ELSE @,
                   !.cleanup = TRUE]

\* Variant of CreateObserver: activeId reset on every (re)creation.
CreateObserver_ResetAlways(h, opts) ==
    IF ConstructorThrows(RootMarginOf(opts), ThresholdOf(opts))
    THEN [SetActiveId(h, Null) EXCEPT !.cleanup = TRUE]
    ELSE [SetActiveId(h, Null) EXCEPT
                   !.observerRef = NewObserver(h.observed),
                   !.orphans = IF h.observerRef.connected
                               THEN @ \cup {h.observerRef.targets} ELSE @,
                   !.cleanup = TRUE]

\* Variant of CreateObserver: the effect returns no cleanup.
CreateObserver_NoCleanup(h, opts) ==
    IF ConstructorThrows(RootMarginOf(opts), ThresholdOf(opts))
    THEN [SetActiveId(h, Null) EXCEPT !.cleanup = FALSE]
    ELSE [h EXCEPT !.observerRef = NewObserver(h.observed),
                   !.orphans = IF h.observerRef.connected
                               THEN @ \cup {h.observerRef.targets} ELSE @,
                   !.cleanup = FALSE]

\* Lines 120-133: try { new IntersectionObserver; observe each } catch { setActiveId(null) };
\* the effect then returns its cleanup.
CreateObserver(h, opts) ==
    IF ConstructorThrows(RootMarginOf(opts), ThresholdOf(opts))
    THEN [SetActiveId(h, Null) EXCEPT !.cleanup = TRUE]
    ELSE [h EXCEPT !.observerRef = NewObserver(h.observed),
                   !.orphans = IF h.observerRef.connected
                               THEN @ \cup {h.observerRef.targets} ELSE @,
                   !.cleanup = TRUE]

\* Lines 66-140: the effect body, run with the arguments of the current render.
UseEffect(h, ids, opts, doc) ==
    IF ~IsClient THEN [h EXCEPT !.cleanup = FALSE]
    ELSE IF ~hasWindow /\ ids # <<>> THEN [h EXCEPT !.threw = TRUE, !.cleanup = FALSE]
    ELSE LET h1 == [DisconnectCurrent(h) EXCEPT !.observed = PopulateObserved(ids, doc)]
         IN  IF Len(h1.observed) = 0
             THEN NothingToObserve(h1)
             ELSE CreateObserver(h1, opts)

\* React: before an effect runs again (and at unmount) the cleanup returned
\* by its previous run is called, if it returned one.
RunCleanup(h) == IF h.cleanup THEN [Cleanup(h) EXCEPT !.cleanup = FALSE] ELSE h

(***************************************************************************)
(* Steps                                                                   *)
(***************************************************************************)

NoStep ==
    [kind |-> "none", before |-> Null, ran |-> FALSE, changed |-> FALSE,
     inter |-> 0, hit |-> {}, live |-> FALSE, redundant |-> FALSE,
     observing |-> FALSE, resolved |-> {}, sel |-> {}]

\* The ids whose intersecting entry has the smallest top of the batch.
MinTopIds(entries) ==
    { entries[i].target : i \in { j \in 1..Len(entries) :
        /\ entries[j].isIntersecting
        /\ \A k \in 1..Len(entries) :
             entries[k].isIntersecting => entries[j].top <= entries[k].top } }

NumIntersecting(entries) ==
    Cardinality({ i \in 1..Len(entries) : entries[i].isIntersecting })

\* Store the hook record h as the next state.
Store(h) ==
    /\ activeId' = h.activeId
    /\ observerRef' = h.observerRef
    /\ observedElementsRef' = h.observed
    /\ cleanup' = h.cleanup
    /\ orphans' = h.orphans
    /\ threw' = h.threw

ScrollspyInit ==
    /\ hasWindow \in BOOLEAN
    /\ hasIO \in BOOLEAN
    /\ hasIO => hasWindow
    /\ lifecycle = "rendered"
    /\ itemIds \in ItemIdSeqs
    /\ options \in OptionsUniverse
    /\ activeId = Null
    /\ observerRef = NoObserver
    /\ observedElementsRef = <<>>
    /\ cleanup = FALSE
    /\ orphans = {}
    /\ threw = FALSE
    /\ last = NoStep

\* The first effect run, after the first render committed.
Mount ==
    /\ lifecycle = "rendered"
    /\ ~threw
    /\ \E doc \in SUBSET Range(itemIds) :
         LET h == UseEffect(Hook, itemIds, options, doc)
         IN  /\ Store(h)
             /\ last' = [NoStep EXCEPT !.kind = "mount", !.before = activeId,
                                       !.ran = TRUE, !.redundant = h.redundant,
                                       !.resolved = {id \in Range(itemIds) : id \in doc}]
    /\ lifecycle' = "mounted"
    /\ UNCHANGED <<hasWindow, hasIO, itemIds, options>>
    /\ UNCHANGED <<navVars, menuVars, themeVars, itemVars, bandVars>>

\* A re-render with new arguments whose dependency array differs from the
\* previous render's: cleanup of the previous run, then the effect body.
ReInitWith(ids, opts) ==
    /\ EffectDeps(ids, opts) # EffectDeps(itemIds, options)
    /\ \E doc \in SUBSET Range(ids) :
         LET h0 == RunCleanup(Hook)
             h  == IF h0.threw THEN h0 ELSE UseEffect(h0, ids, opts, doc)
         IN  /\ Store(h)
             /\ last' = [NoStep EXCEPT !.kind = "render", !.before = activeId,
                           !.ran = TRUE, !.redundant = h.redundant,
                           !.observing = observerRef.connected,
                           !.resolved = {id \in Range(ids) : id \in doc},
                           !.changed = ~(ids = itemIds /\ OptionsEqualByValue(opts, options))]
    /\ itemIds' = ids
    /\ options' = opts

ReInit ==
    /\ lifecycle = "mounted"
    /\ ~threw
    /\ \E ids \in ItemIdSeqs, opts \in OptionsUniverse : ReInitWith(ids, opts)
    /\ UNCHANGED <<hasWindow, hasIO, lifecycle>>
    /\ UNCHANGED <<navVars, menuVars, themeVars, itemVars, bandVars>>

\* A re-render whose dependency array equals the previous render's: the
\* effect is skipped, the hook only sees its new arguments.
ReRenderWith(ids, opts) ==
    /\ EffectDeps(ids, opts) = EffectDeps(itemIds, options)
    /\ itemIds' = ids
    /\ options' = opts
    /\ last' = [NoStep EXCEPT !.kind = "render", !.before = activeId,
                  !.observing = observerRef.connected,
                  !.sel = last.sel,
                  !.changed = ~(ids = itemIds /\ OptionsEqualByValue(opts, options))]
    /\ UNCHANGED <<activeId, observerRef, observedElementsRef, cleanup, orphans, threw>>

ReRender ==
    /\ lifecycle = "mounted"
    /\ ~threw
    /\ \E ids \in ItemIdSeqs, opts \in OptionsUniverse : ReRenderWith(ids, opts)
    /\ UNCHANGED <<hasWindow, hasIO, lifecycle>>
    /\ UNCHANGED <<navVars, menuVars, themeVars, itemVars, bandVars>>

\* The component unmounts: React calls the cleanup of the last effect run.
Unmount ==
    /\ lifecycle = "mounted"
    /\ ~threw
    /\ LET h == RunCleanup(Hook)
       IN  /\ Store(h)
           /\ last' = [NoStep EXCEPT !.kind = "unmount", !.before = activeId,
                                     !.redundant = h.redundant,
                                     !.observing = observerRef.connected,
                                     !.sel = last.sel]
    /\ lifecycle' = "unmounted"
    /\ UNCHANGED <<hasWindow, hasIO, itemIds, options>>
    /\ UNCHANGED <<navVars, menuVars, themeVars, itemVars, bandVars>>

\* A connected observer delivers a batch to observerCallback.
Deliver ==
    /\ ~threw
    /\ \E fromRef \in BOOLEAN :
         \E targets \in (IF fromRef
                         THEN (IF observerRef.connected THEN {observerRef.targets} ELSE {})
                         ELSE orphans) :
           \E entries \in Batches(targets) :
             /\ Store(ObserverCallback(Hook, entries))
             /\ last' = [NoStep EXCEPT !.kind = "batch", !.before = activeId,
                           !.inter = NumIntersecting(entries),
                           !.hit = MinTopIds(entries),
                           !.sel = IF MinTopIds(entries) # {}
                                   THEN MinTopIds(entries) ELSE last.sel,
                           !.live = fromRef /\ lifecycle = "mounted"]
    /\ UNCHANGED <<hasWindow, hasIO, lifecycle, itemIds, options>>
    /\ UNCHANGED <<navVars, menuVars, themeVars, itemVars, bandVars>>

\* The hook before anything happened, for the specifications of the other parts.
ScrollspyIdle ==
    /\ hasWindow = TRUE
    /\ hasIO = TRUE
    /\ lifecycle = "rendered"
    /\ itemIds = <<>>
    /\ options = UndefinedOptions
    /\ activeId = Null
    /\ observerRef = NoObserver
    /\ observedElementsRef = <<>>
    /\ cleanup = FALSE
    /\ orphans = {}
    /\ threw = FALSE
    /\ last = NoStep

(***************************************************************************)
(* NavBar scroll state (src/src/components/NavBar.tsx 119-181)             *)
(***************************************************************************)

\* Default of the scrollThreshold prop.
DefaultScrollThreshold == 0

\* Default of the scrollTransitionRange prop.
DefaultScrollTransitionRange == 100

\* const scrollDirectionChangeSensitivity = 10
ScrollDirectionChangeSensitivity == 10

\* Scroll positions are sampled on a grid of 5 pixels, up to 5 * MaxScrollSteps.
MaxScrollSteps == 34

Positions == {5 * k : k \in 0..MaxScrollSteps}

ScrollThresholds == {DefaultScrollThreshold, 20}

ScrollTransitionRanges == {DefaultScrollTransitionRange, 50}

\* A motion value that was never updated has no previous value.
NoPrevious == -1

\* MotionValue.set(v): the current value becomes the previous one.
MotionValueSet(mv, v) == [current |-> v, prev |-> mv.current]

\* Variant of GetPrevious: the current value read instead of the previous one.
GetPrevious_Current(mv) == mv.current

\* scrollY.getPrevious() ?? 0
GetPrevious(mv) == IF mv.prev = NoPrevious THEN 0 ELSE mv.prev

\* const effectiveHideStartThreshold = scrollThreshold + scrollTransitionRange
EffectiveHideStartThreshold(threshold, range) == threshold + range

\* Variant of OnScrollChange: hiding does not wait for the hide-start threshold.
OnScrollChange_NoThreshold(hidden, latest, mv, threshold, range) ==
    LET diff == latest - GetPrevious(mv)
    IN  IF diff > ScrollDirectionChangeSensitivity THEN TRUE
        ELSE IF diff < -ScrollDirectionChangeSensitivity
                \/ latest <= EffectiveHideStartThreshold(threshold, range) THEN FALSE
        ELSE hidden

\* Variant of OnScrollChange: the bar is shown again only on scrolling up.
OnScrollChange_NoShowNearTop(hidden, latest, mv, threshold, range) ==
    LET diff == latest - GetPrevious(mv)
    IN  IF latest > EffectiveHideStartThreshold(threshold, range)
           /\ diff > ScrollDirectionChangeSensitivity THEN TRUE
        ELSE IF diff < -ScrollDirectionChangeSensitivity THEN FALSE
        ELSE hidden

\* Variant of OnScrollChange: any movement changes the state (no sensitivity).
OnScrollChange_NoSensitivity(hidden, latest, mv, threshold, range) ==
    LET diff == latest - GetPrevious(mv)
    IN  IF latest > EffectiveHideStartThreshold(threshold, range) /\ diff > 0 THEN TRUE
        ELSE IF diff < 0
                \/ latest <= EffectiveHideStartThreshold(threshold, range) THEN FALSE
        ELSE hidden

\* Variant of OnScrollChange: hiding starts at the hide-start threshold itself.
OnScrollChange_HideAtThreshold(hidden, latest, mv, threshold, range) ==
    LET diff == latest - GetPrevious(mv)
    IN  IF latest >= EffectiveHideStartThreshold(threshold, range)
           /\ diff > ScrollDirectionChangeSensitivity THEN TRUE
        ELSE IF diff < -ScrollDirectionChangeSensitivity
                \/ latest <= EffectiveHideStartThreshold(threshold, range) THEN FALSE
        ELSE hidden

\* Lines 151-163: the handler of scrollY's "change" event; the value of
\* isHidden after it.
OnScrollChange(hidden, latest, mv, threshold, range) ==
    LET previous == GetPrevious(mv)
        diff     == latest - previous
    IN  IF latest > EffectiveHideStartThreshold(threshold, range)
           /\ diff > ScrollDirectionChangeSensitivity
        THEN TRUE
        ELSE IF diff < -ScrollDirectionChangeSensitivity
                \/ latest <= EffectiveHideStartThreshold(threshold, range)
        THEN FALSE
        ELSE hidden

Clamp(lo, hi, v) == IF v < lo THEN lo ELSE IF v > hi THEN hi ELSE v

\* Variant of TransformProgress: useTransform called without clamp.
TransformProgress_NoClamp(v, threshold, range) == [num |-> v - threshold, den |-> range]

\* Lines 166, 178-181: useTransform(scrollY, [threshold, threshold + range], ..., {clamp: true}):
\* the progress (v - threshold) / range of the clamped value, as a fraction.
TransformProgress(v, threshold, range) ==
    [num |-> Clamp(threshold, threshold + range, v) - threshold, den |-> range]

\* The scroll state before any scroll sample, with the default props.
NavIdle ==
    /\ scrollThreshold = DefaultScrollThreshold
    /\ scrollTransitionRange = DefaultScrollTransitionRange
    /\ scrollY = [current |-> 0, prev |-> NoPrevious]
    /\ isHidden = FALSE
    /\ progress = TransformProgress(0, DefaultScrollThreshold, DefaultScrollTransitionRange)
    /\ navLast = [kind |-> "none", wasHidden |-> FALSE, prevNum |-> 0]

\* The mobile menu as first rendered.
MenuIdle ==
    /\ menuMounted = TRUE
    /\ isMobileMenuOpen = FALSE
    /\ isAnimating = FALSE
    /\ popover = "absent"
    /\ innerWidth = 375
    /\ focus = "elsewhere"
    /\ bodyOverflow = ""
    /\ menuLast = [kind |-> "none", wasOpen |-> FALSE, wasAnimating |-> FALSE]

\* useTheme().resolvedTheme when next-themes has not resolved a theme.
Undefined == "<undefined>"

\* No setTheme call was made.
NoRequest == "<none>"

NoThemeStep == [kind |-> "none", before |-> Undefined, prevKind |-> "none",
                before2 |-> Undefined]

\* The toggle before its first effect, under a provider without a resolved theme.
ThemeIdle ==
    /\ mounted = FALSE
    /\ resolvedTheme = Undefined
    /\ requestedTheme = NoRequest
    /\ themeLast = NoThemeStep

\* Default of the enableScrollspy prop.
DefaultEnableScrollspy == TRUE

NoItemsStep == [kind |-> "none", wasEnabled |-> DefaultEnableScrollspy, wasActive |-> Null]

\* A NavBar without menu items.
ItemsIdle ==
    /\ menuItems = <<>>
    /\ enableScrollspy = DefaultEnableScrollspy
    /\ itemsLast = NoItemsStep

\* No section is known to intersect.
BandIdle == band = {}

Init == ScrollspyInit /\ NavIdle /\ MenuIdle /\ ThemeIdle /\ ItemsIdle /\ BandIdle

Next == Mount \/ ReInit \/ ReRender \/ Unmount \/ Deliver

Spec == Init /\ [][Next]_vars

(***************************************************************************)
(* Properties of useScrollspy                                              *)
(***************************************************************************)

\* C1: after a batch with at least one intersecting entry, activeId is the id
\* of an intersecting entry of that batch whose top is the smallest (the
\* only intersecting entry when there is exactly one).
C1_BatchSelectsTopmost ==
    (last.kind = "batch" /\ last.inter > 0) => activeId \in last.hit

\* C1 witness: a batch with two intersecting entries at different tops set activeId.
C1_Witness ==
    /\ last.kind = "batch"
    /\ last.inter = 2
    /\ Cardinality(last.hit) = 1
    /\ activeId \in last.hit
    /\ activeId # last.before

\* C2: a batch in which no entry intersects leaves activeId as it was.
C2_EmptyBatchKeepsActiveId ==
    (last.kind = "batch" /\ last.inter = 0) => activeId = last.before

\* C2 witness: a non-null activeId survived a batch without intersecting entries.
C2_Witness ==
    /\ last.kind = "batch"
    /\ last.inter = 0
    /\ last.before # Null
    /\ activeId = last.before

\* C3: activeId is null or a member of the identifier sequence of the
\* latest render.
C3_ActiveIdInCurrentIds ==
    activeId = Null \/ activeId \in Range(itemIds)

\* C4 (as claimed): a non-null activeId is set back to null only by a
\* re-initialization that resolves zero sections.
C4_OnlyEmptyRebuildClears ==
    (last.before # Null /\ activeId = Null)
        => (last.kind = "render" /\ last.ran /\ observedElementsRef = <<>>)

\* C4 (amended): a non-null activeId is set back to null only by a
\* re-initialization that resolves zero sections or whose observer
\* construction throws; no batch and no other re-initialization clears it.
C4_OnlyEmptyOrFailedRebuildClears ==
    (last.before # Null /\ activeId = Null)
        => /\ last.kind = "render"
           /\ last.ran
           /\ \/ observedElementsRef = <<>>
              \/ ConstructorThrows(RootMarginOf(options), ThresholdOf(options))

\* C4 witness: a re-initialization that resolved a section cleared a non-null
\* activeId because the observer could not be constructed.
C4_Witness ==
    /\ last.kind = "render"
    /\ last.ran
    /\ last.before # Null
    /\ activeId = Null
    /\ observedElementsRef # <<>>

\* C5: while the latest (re)initialization resolved no element, activeId is
\* null and no observer of the hook is connected.
C5_NothingResolvedMeansNull ==
    observedElementsRef = <<>>
        => /\ activeId = Null
           /\ ~observerRef.connected
           /\ orphans = {}

\* C5 witness: a re-initialization that resolved nothing, for a non-empty
\* identifier sequence, reset a non-null activeId.
C5_Witness ==
    /\ last.kind = "render"
    /\ last.ran
    /\ last.before # Null
    /\ itemIds # <<>>
    /\ observedElementsRef = <<>>
    /\ activeId = Null

\* C6: a re-render whose identifier sequence or options differ by value from
\* the previous render's re-initializes a session that is observing: the
\* effect runs, and an observer connected afterwards was built from the new
\* identifiers.
C6_ChangeByValueReinitializes ==
    (last.kind = "render" /\ last.changed /\ last.observing)
        => /\ last.ran
           /\ observerRef.connected => Range(observerRef.targets) \subseteq Range(itemIds)

\* C7: a re-render whose identifier sequence and options equal the previous
\* render's by value does not tear down or rebuild a session that is
\* observing, and leaves activeId and the observed set unchanged.
C7_EqualByValueKeepsSession ==
    (last.kind = "render" /\ ~last.changed /\ last.observing)
        => /\ ~last.ran
           /\ activeId = last.before
           /\ observerRef.connected
           /\ observerRef.targets = observedElementsRef

\* C8: after teardown the observer is disconnected: a connected observer is
\* always the one of the live session, none is connected after unmount or
\* left behind by a re-initialization, and a batch of a torn-down session
\* never changes activeId.
C8_TeardownStopsReports ==
    /\ orphans = {}
    /\ observerRef.connected
          => (lifecycle = "mounted" /\ observerRef.targets = observedElementsRef)
    /\ (last.kind = "batch" /\ ~last.live) => activeId = last.before

\* C8 witness: the component unmounted after its observer had reported a section.
C8_Witness ==
    /\ last.kind = "unmount"
    /\ last.observing
    /\ lifecycle = "unmounted"
    /\ activeId # Null
    /\ observerRef.exists
    /\ ~observerRef.connected

\* C9: teardown is idempotent: no teardown ever throws, and calling the
\* cleanup again after React ran it throws nothing and changes neither
\* activeId, the observed map nor the observer.
C9_TeardownIdempotent ==
    /\ ~threw
    /\ lifecycle = "mounted" =>
         LET once  == RunCleanup(Hook)
             twice == Cleanup(once)
         IN  /\ ~once.threw
             /\ ~twice.threw
             /\ twice.activeId = activeId
             /\ twice.observed = observedElementsRef
             /\ twice.observerRef = once.observerRef
             /\ twice.orphans = once.orphans

\* C9 witness: a step called disconnect() on an already disconnected observer
\* (the cleanup, then line 77 of the next effect run) without an error.
C9_Witness ==
    /\ last.kind = "render"
    /\ last.redundant
    /\ ~threw

\* C10: without window/document or without IntersectionObserver the hook
\* observes nothing, throws nothing and returns null in every state.
C10_NoCapabilityMeansNull ==
    (~hasWindow \/ ~hasIO)
        => /\ activeId = Null
           /\ ~observerRef.exists
           /\ orphans = {}
           /\ ~threw

\* C10 witness: without a window the hook was re-initialized with a non-empty
\* identifier sequence.
C10_Witness ==
    /\ ~hasWindow
    /\ last.kind = "render"
    /\ last.ran
    /\ itemIds # <<>>
    /\ activeId = Null

C12_ObservedIsResolved ==
    (last.kind \in {"mount", "render"} /\ last.ran /\ hasWindow)
        => /\ Range(observedElementsRef) = last.resolved
           /\ Cardinality(Range(observedElementsRef)) = Len(observedElementsRef)
           /\ observerRef.connected => observerRef.targets = observedElementsRef
           /\ ~threw

\* C12 witness: of two identifiers the first did not resolve and was skipped;
\* the second is observed.
C12_Witness ==
    /\ last.kind \in {"mount", "render"}
    /\ last.ran
    /\ itemIds = <<"a", "a,a">>
    /\ last.resolved = {"a,a"}
    /\ observedElementsRef = <<"a,a">>
    /\ observerRef.connected

\* C13: within a session activeId is the selection of the most recent batch
\* that had an intersecting entry, whatever batches came before or after it.
C13_LatestSelectionWins ==
    (last.sel # {} /\ lifecycle = "mounted") => activeId \in last.sel

\* C13 witness: a batch replaced the selection of an earlier batch.
C13_Witness ==
    /\ last.kind = "batch"
    /\ last.inter > 0
    /\ last.before # Null
    /\ last.before \notin last.hit
    /\ activeId \in last.sel
    /\ last.sel = last.hit

(***************************************************************************)
(* NavBar scroll specification                                             *)
(***************************************************************************)

\* The NavBar as first rendered, at the top of the page, with its props.
NavInit ==
    /\ scrollThreshold \in ScrollThresholds
    /\ scrollTransitionRange \in ScrollTransitionRanges
    /\ scrollY = [current |-> 0, prev |-> NoPrevious]
    /\ isHidden = FALSE
    /\ progress = TransformProgress(0, scrollThreshold, scrollTransitionRange)
    /\ navLast = [kind |-> "none", wasHidden |-> FALSE, prevNum |-> 0]

\* scrollY changes to a new value: the "change" handler and the transforms run.
ScrollChange ==
    /\ \E latest \in Positions \ {scrollY.current} :
         LET mv == MotionValueSet(scrollY, latest)
         IN  /\ scrollY' = mv
             /\ isHidden' = OnScrollChange(isHidden, latest, mv,
                                           scrollThreshold, scrollTransitionRange)
             /\ progress' = TransformProgress(latest, scrollThreshold, scrollTransitionRange)
    /\ navLast' = [kind |-> "scroll", wasHidden |-> isHidden, prevNum |-> progress.num]
    /\ UNCHANGED <<scrollThreshold, scrollTransitionRange>>
    /\ UNCHANGED <<scrollspyVars, menuVars, themeVars, itemVars, bandVars>>

NavNext == ScrollChange

InitNav == ScrollspyIdle /\ NavInit /\ MenuIdle /\ ThemeIdle /\ ItemsIdle /\ BandIdle

SpecNav == InitNav /\ [][NavNext]_vars

\* The quantities of the latest scroll sample.
SampleDiff == scrollY.current - scrollY.prev

HideStart == scrollThreshold + scrollTransitionRange

\* C14: a scroll sample sets the state to hidden if and only if
\* position > hideStartThreshold and diff > 10: with that condition the bar is
\* hidden after the sample, and without it a visible bar stays visible.
C14_HiddenIffPastThresholdAndDown ==
    navLast.kind = "scroll"
        => LET cond == scrollY.current > HideStart /\ SampleDiff > 10
           IN  /\ cond => isHidden
               /\ (~cond /\ ~navLast.wasHidden) => ~isHidden

\* C14 witness: thresholds 0 and 100, samples 150 then 170 end hidden.
C14_Witness ==
    /\ navLast.kind = "scroll"
    /\ scrollThreshold = 0
    /\ scrollTransitionRange = 100
    /\ scrollY = [current |-> 170, prev |-> 150]
    /\ isHidden

\* C15: after a scroll sample with diff < -10 or position <= hideStartThreshold
\* the bar is visible, whatever it was before.
C15_VisibleOnUpOrNearTop ==
    (navLast.kind = "scroll" /\ (SampleDiff < -10 \/ scrollY.current <= HideStart))
        => ~isHidden

\* C15 witness: a hidden bar became visible on a small step back to the
\* hide-start threshold.
C15_Witness ==
    /\ navLast.kind = "scroll"
    /\ navLast.wasHidden
    /\ SampleDiff >= -10
    /\ scrollY.current = HideStart
    /\ ~isHidden

\* C16: a scroll sample with |diff| <= 10 and position > hideStartThreshold
\* leaves the hidden/visible state as it was.
C16_DeadZoneHolds ==
    (navLast.kind = "scroll" /\ SampleDiff <= 10 /\ SampleDiff >= -10
       /\ scrollY.current > HideStart)
        => isHidden = navLast.wasHidden

\* C16 witness: a hidden bar stayed hidden on a step of 10 pixels upwards.
C16_Witness ==
    /\ navLast.kind = "scroll"
    /\ navLast.wasHidden
    /\ SampleDiff = -10
    /\ scrollY.current > HideStart
    /\ isHidden

\* C17 (as claimed): with thresholds 0 and 100, after the samples 50 and then
\* 120 the bar is visible at 120.
C17_VisibleAt120 ==
    (scrollThreshold = 0 /\ scrollTransitionRange = 100
       /\ scrollY = [current |-> 120, prev |-> 50])
        => ~isHidden

\* C17 (amended): with thresholds 0 and 100, after the samples 50 and then 120
\* (diff 70 > 10, position 120 > 100) the bar is hidden at 120.
C17_HiddenAt120 ==
    (scrollThreshold = 0 /\ scrollTransitionRange = 100
       /\ scrollY = [current |-> 120, prev |-> 50])
        => isHidden

\* C17 witness: the sample 120 after 50 hid a bar that was visible at 50.
C17_Witness ==
    /\ scrollThreshold = 0
    /\ scrollTransitionRange = 100
    /\ scrollY = [current |-> 120, prev |-> 50]
    /\ ~navLast.wasHidden
    /\ isHidden

\* C18: the progress of the scroll-driven styles is within [0,1], is 0 at
\* positions <= scrollThreshold, is 1 at positions >= scrollThreshold +
\* scrollTransitionRange, and does not decrease when the position grows.
C18_ProgressClampedMonotone ==
    /\ progress.den = scrollTransitionRange
    /\ 0 <= progress.num
    /\ progress.num <= progress.den
    /\ scrollY.current <= scrollThreshold => progress.num = 0
    /\ scrollY.current >= HideStart => progress.num = progress.den
    /\ navLast.kind = "scroll"
          => /\ SampleDiff >= 0 => progress.num >= navLast.prevNum
             /\ SampleDiff <= 0 => progress.num <= navLast.prevNum

\* C18 witness: thresholds 0 and 100, position 50 gives progress 1/2, reached
\* from a position past the range where it was 1.
C18_Witness ==
    /\ scrollThreshold = 0
    /\ scrollTransitionRange = 100
    /\ scrollY.current = 50
    /\ scrollY.prev > 100
    /\ 2 * progress.num = progress.den
    /\ navLast.prevNum = progress.den

(***************************************************************************)
(* Mobile menu (src/src/components/NavBar.tsx 125-202, 282-332;            *)
(* src/src/components/DarkModeToggle.tsx 250-366, MobileMenu)              *)
(***************************************************************************)

\* window.innerWidth >= 768: Tailwind's 'md' breakpoint.
MdBreakpoint == 768

Widths == {320, 375, 767, MdBreakpoint, 1024}

Keys == {"Escape", "Tab"}

\* The menu's state as one value the handlers transform.
Menu ==
    [open |-> isMobileMenuOpen, animating |-> isAnimating, popover |-> popover,
     focus |-> focus, overflow |-> bodyOverflow]

\* NavBar 198-202: handleOpenMenu.
HandleOpenMenu(m) == IF ~m.animating THEN [m EXCEPT !.open = TRUE] ELSE m

\* Variant of HandleCloseMenu: closes without looking at isAnimating.
HandleCloseMenu_NoGuard(m) == [m EXCEPT !.open = FALSE]

\* MobileMenu 281-285: handleCloseMenu.
HandleCloseMenu(m) == IF ~m.animating THEN [m EXCEPT !.open = FALSE] ELSE m

\* MobileMenu 262-269: handleKeyDown.
HandleKeyDown(m, key) ==
    IF key = "Escape" /\ m.open /\ ~m.animating THEN [m EXCEPT !.open = FALSE] ELSE m

\* Variant of HandleResize: closes the menu and leaves isAnimating as it is.
HandleResize_KeepAnimating(m, width) ==
    IF width >= MdBreakpoint /\ m.open THEN [m EXCEPT !.open = FALSE] ELSE m

\* NavBar 185-190: handleResize.
HandleResize(m, width) ==
    IF width >= MdBreakpoint /\ m.open
    THEN [m EXCEPT !.open = FALSE, !.animating = FALSE]
    ELSE m

\* MobileMenu 288: onAnimationStartCallback.
OnAnimationStartCallback(m) == [m EXCEPT !.animating = TRUE]

\* NavBar 285-289: the trigger button is rendered while the menu is closed.
TriggerExists(m) == ~m.open

\* Variant of OnAnimationCompleteCallback: the focus is not restored.
OnAnimationCompleteCallback_NoFocus(m) == [m EXCEPT !.animating = FALSE]

\* MobileMenu 290-296: onAnimationCompleteCallback.
OnAnimationCompleteCallback(m) ==
    LET done == [m EXCEPT !.animating = FALSE]
    IN  IF ~m.open /\ TriggerExists(m) THEN [done EXCEPT !.focus = "trigger"] ELSE done

\* MobileMenu 299-335: AnimatePresence after a render. A popover that appears
\* starts its entry animation, one that is removed starts its exit animation;
\* each start calls onAnimationStart.
Presence(m) ==
    IF m.open /\ m.popover \in {"absent", "exiting"}
    THEN OnAnimationStartCallback([m EXCEPT !.popover = "entering"])
    ELSE IF ~m.open /\ m.popover \in {"entering", "visible"}
    THEN OnAnimationStartCallback([m EXCEPT !.popover = "exiting"])
    ELSE m

\* Variant of BodyOverflowEffect: the overflow is locked and never released.
BodyOverflowEffect_NoRelease(m) == [m EXCEPT !.overflow = IF m.open THEN "hidden" ELSE @]

\* MobileMenu 251-259: the effect on [isOpen].
BodyOverflowEffect(m) == [m EXCEPT !.overflow = IF m.open THEN "hidden" ELSE ""]

\* NavBar 285: the trigger button leaves the document when the menu opens,
\* and the focus with it.
TriggerFocus(m) == IF m.focus = "trigger" /\ ~TriggerExists(m)
                   THEN [m EXCEPT !.focus = "elsewhere"] ELSE m

\* A render after a state change, with its effects.
Render(m) == TriggerFocus(BodyOverflowEffect(Presence(m)))

\* MobileMenu 300-302: the FocusTrap rendered with the popover,
\* active={isOpen && !isAnimating}.
FocusTrapActive == menuMounted /\ popover # "absent" /\ isMobileMenuOpen /\ ~isAnimating

StoreMenu(m, kind) ==
    /\ isMobileMenuOpen' = m.open
    /\ isAnimating' = m.animating
    /\ popover' = m.popover
    /\ focus' = m.focus
    /\ bodyOverflow' = m.overflow
    /\ menuLast' = [kind |-> kind, wasOpen |-> isMobileMenuOpen,
                    wasAnimating |-> isAnimating]

\* NavBar 273, 285-294: a click on the hamburger, which is rendered while the
\* menu is closed, shown below the md breakpoint and disabled while animating.
HamburgerClick ==
    /\ menuMounted
    /\ ~isMobileMenuOpen
    /\ innerWidth < MdBreakpoint
    /\ StoreMenu(IF isAnimating THEN Menu ELSE Render(HandleOpenMenu(Menu)), "hamburger")
    /\ UNCHANGED <<menuMounted, innerWidth>>
    /\ UNCHANGED <<scrollspyVars, navVars, themeVars, itemVars, bandVars>>

\* MobileMenu 335-337: the entry animation ends; no callback is attached.
EntryAnimationComplete ==
    /\ popover = "entering"
    /\ StoreMenu([Menu EXCEPT !.popover = "visible"], "entered")
    /\ UNCHANGED <<menuMounted, innerWidth>>
    /\ UNCHANGED <<scrollspyVars, navVars, themeVars, itemVars, bandVars>>

\* MobileMenu 271-278: a keydown event on the document.
KeyDown ==
    /\ menuMounted
    /\ \E key \in Keys : StoreMenu(Render(HandleKeyDown(Menu, key)), key)
    /\ UNCHANGED <<menuMounted, innerWidth>>
    /\ UNCHANGED <<scrollspyVars, navVars, themeVars, itemVars, bandVars>>

\* MobileMenu 365-366: a click on the close button; a disabled button
\* delivers no click.
CloseButtonClick ==
    /\ popover # "absent"
    /\ StoreMenu(IF isAnimating THEN Menu ELSE Render(HandleCloseMenu(Menu)), "closeButton")
    /\ UNCHANGED <<menuMounted, innerWidth>>
    /\ UNCHANGED <<scrollspyVars, navVars, themeVars, itemVars, bandVars>>

\* MobileMenu 400-402: a click on a menu link.
LinkClick ==
    /\ popover # "absent"
    /\ StoreMenu(Render(HandleCloseMenu(Menu)), "link")
    /\ UNCHANGED <<menuMounted, innerWidth>>
    /\ UNCHANGED <<scrollspyVars, navVars, themeVars, itemVars, bandVars>>

\* NavBar 184-195: the window is resized.
Resize ==
    /\ \E width \in Widths \ {innerWidth} :
         /\ innerWidth' = width
         /\ StoreMenu(IF menuMounted THEN Render(HandleResize(Menu, width)) ELSE Menu,
                      "resize")
    /\ UNCHANGED menuMounted
    /\ UNCHANGED <<scrollspyVars, navVars, themeVars, itemVars, bandVars>>

\* MobileMenu 299: the exit animation ends and AnimatePresence calls
\* onExitComplete.
ExitComplete ==
    /\ popover = "exiting"
    /\ StoreMenu(OnAnimationCompleteCallback([Menu EXCEPT !.popover = "absent"]), "exited")
    /\ UNCHANGED <<menuMounted, innerWidth>>
    /\ UNCHANGED <<scrollspyVars, navVars, themeVars, itemVars, bandVars>>

\* The NavBar unmounts: its elements and listeners go, and the cleanup of the
\* effect of MobileMenu 251-259 runs.
MenuUnmount ==
    /\ menuMounted
    /\ menuMounted' = FALSE
    /\ StoreMenu([Menu EXCEPT !.popover = "absent", !.focus = "elsewhere", !.overflow = ""],
                 "unmount")
    /\ UNCHANGED innerWidth
    /\ UNCHANGED <<scrollspyVars, navVars, themeVars, itemVars, bandVars>>

MenuInit ==
    /\ menuMounted = TRUE
    /\ isMobileMenuOpen = FALSE
    /\ isAnimating = FALSE
    /\ popover = "absent"
    /\ innerWidth \in Widths
    /\ focus = "elsewhere"
    /\ bodyOverflow = ""
    /\ menuLast = [kind |-> "none", wasOpen |-> FALSE, wasAnimating |-> FALSE]

InitMenu == ScrollspyIdle /\ NavIdle /\ MenuInit /\ ThemeIdle /\ ItemsIdle /\ BandIdle

MenuNext ==
    \/ HamburgerClick
    \/ EntryAnimationComplete
    \/ KeyDown
    \/ CloseButtonClick
    \/ LinkClick
    \/ Resize
    \/ ExitComplete
    \/ MenuUnmount

SpecMenu == InitMenu /\ [][MenuNext]_vars

\* Some user close action (close button, menu link, Escape key) closes the menu
\* in the current state.
UserCanClose ==
    \/ ~HandleCloseMenu(Menu).open
    \/ ~HandleKeyDown(Menu, "Escape").open

\* C19 (as claimed): the focus trap is active exactly when the menu is open and
\* no open/close animation of the popover is in progress; once the entry
\* animation has finished with the menu open, isAnimating is false.
C19_TrapActiveIffOpenAndSettled ==
    menuMounted =>
        /\ FocusTrapActive <=> (isMobileMenuOpen /\ popover \notin {"entering", "exiting"})
        /\ (isMobileMenuOpen /\ popover = "visible") => ~isAnimating

\* C20 (as claimed): when the menu is open and the popover's animation has run
\* to completion, a user close action sets isOpen to false.
C20_SettledMenuClosableByUser ==
    (menuMounted /\ isMobileMenuOpen /\ popover = "visible") => UserCanClose

\* The kinds of step that are actions of the user on the menu.
UserActionKinds == {"hamburger", "closeButton", "link", "Escape"}

\* C21: a hamburger click, close-button click, menu-link click or Escape key
\* leaves isMobileMenuOpen unchanged when isAnimating was true, and Escape on
\* a closed menu changes neither isMobileMenuOpen nor isAnimating.
C21_UserActionsGuardedByAnimating ==
    menuLast.kind \in UserActionKinds
        => /\ menuLast.wasAnimating => isMobileMenuOpen = menuLast.wasOpen
           /\ (menuLast.kind = "Escape" /\ ~menuLast.wasOpen)
                 => (~isMobileMenuOpen /\ isAnimating = menuLast.wasAnimating)

\* C21 witness: a menu link was clicked in an open menu while isAnimating was
\* true, and the menu is still open.
C21_Witness ==
    /\ menuLast.kind = "link"
    /\ menuLast.wasOpen
    /\ menuLast.wasAnimating
    /\ isMobileMenuOpen

\* C22: handleResize with innerWidth >= 768 on an open menu sets
\* isMobileMenuOpen and isAnimating to false, whatever isAnimating was; with
\* innerWidth < 768, or on a closed menu, it changes neither, and after such a
\* resize both have the values they had before it.
C22_ResizeClosesOnlyWideAndOpen ==
    /\ \A width \in Widths :
         LET r == HandleResize(Menu, width)
         IN  IF width >= 768 /\ isMobileMenuOpen
             THEN ~r.open /\ ~r.animating
             ELSE r = Menu
    /\ (menuMounted /\ menuLast.kind = "resize")
          => IF innerWidth >= 768 /\ menuLast.wasOpen
             THEN ~isMobileMenuOpen
             ELSE /\ isMobileMenuOpen = menuLast.wasOpen
                  /\ isAnimating = menuLast.wasAnimating

\* C22 witness: a resize to a width >= 768 closed an open menu whose animation
\* was in progress.
C22_Witness ==
    /\ menuMounted
    /\ menuLast.kind = "resize"
    /\ menuLast.wasOpen
    /\ menuLast.wasAnimating
    /\ innerWidth >= 768
    /\ ~isMobileMenuOpen
    /\ ~HandleResize([Menu EXCEPT !.open = TRUE, !.animating = TRUE], innerWidth).animating

C24_BodyOverflowFollowsOpen ==
    /\ menuMounted => (bodyOverflow = "hidden" <=> isMobileMenuOpen)
    /\ menuMounted => bodyOverflow \in {"hidden", ""}
    /\ ~menuMounted => bodyOverflow = ""

\* C24 witness: the component was unmounted with the menu open and the
\* overflow is restored.
C24_Witness ==
    /\ ~menuMounted
    /\ menuLast.kind = "unmount"
    /\ menuLast.wasOpen
    /\ bodyOverflow = ""

(***************************************************************************)
(* DarkModeToggle (src/src/components/DarkModeToggle.tsx 31-53)            *)
(***************************************************************************)

\* The values of resolvedTheme: the two built-in themes, a custom theme of the
\* provider, and undefined.
ResolvedThemes == {"dark", "light", "sepia", Undefined}

\* The toggle's state as one value.
Theme == [mounted |-> mounted, resolved |-> resolvedTheme, requested |-> requestedTheme]

\* next-themes: setTheme(t) records the request, and the resolved theme of a
\* theme other than "system" is that theme.
SetTheme(t, theme) == [t EXCEPT !.requested = theme, !.resolved = theme]

\* const nextTheme = resolvedTheme === "dark" ? "light" : "dark"
NextTheme(resolved) == IF resolved = "dark" THEN "light" ELSE "dark"

\* Variant of ToggleTheme: 'dark' is requested only when the theme is 'light'.
ToggleTheme_LightOnlyToDark(t) ==
    IF ~t.mounted THEN t
    ELSE SetTheme(t, IF t.resolved = "light" THEN "dark" ELSE "light")

\* Lines 41-45: toggleTheme.
ToggleTheme(t) == IF ~t.mounted THEN t ELSE SetTheme(t, NextTheme(t.resolved))

\* Lines 48-51, 60: what a click reaches: the placeholder has no handler, the
\* button calls toggleTheme.
Click(t) == IF ~t.mounted THEN t ELSE ToggleTheme(t)

StoreTheme(t, kind) ==
    /\ mounted' = t.mounted
    /\ resolvedTheme' = t.resolved
    /\ requestedTheme' = t.requested
    /\ themeLast' = [kind |-> kind, before |-> resolvedTheme,
                     prevKind |-> themeLast.kind, before2 |-> themeLast.before]

\* Line 36: React.useEffect(() => setMounted(true), []).
ThemeMount ==
    /\ ~mounted
    /\ StoreTheme([Theme EXCEPT !.mounted = TRUE], "mount")
    /\ UNCHANGED <<scrollspyVars, navVars, menuVars, itemVars, bandVars>>

\* A click on the rendered element.
ThemeClick ==
    /\ StoreTheme(Click(Theme), IF mounted THEN "click" ELSE "placeholderClick")
    /\ UNCHANGED <<scrollspyVars, navVars, menuVars, itemVars, bandVars>>

\* The provider resolves another theme (system preference, another control).
ThemeResolve ==
    /\ \E theme \in ResolvedThemes \ {resolvedTheme} :
         StoreTheme([Theme EXCEPT !.resolved = theme], "resolve")
    /\ UNCHANGED <<scrollspyVars, navVars, menuVars, itemVars, bandVars>>

ThemeInit ==
    /\ mounted = FALSE
    /\ resolvedTheme \in ResolvedThemes
    /\ requestedTheme = NoRequest
    /\ themeLast = NoThemeStep

InitTheme == ScrollspyIdle /\ NavIdle /\ MenuIdle /\ ThemeInit /\ ItemsIdle /\ BandIdle

ThemeNext == ThemeMount \/ ThemeClick \/ ThemeResolve

SpecTheme == InitTheme /\ [][ThemeNext]_vars

\* C25: before the mount no theme is requested and toggleTheme changes
\* nothing; after the mount a click requests 'light' when the resolved theme
\* was 'dark' and 'dark' otherwise; two consecutive clicks from a light or dark
\* theme return to it.
C25_ToggleRequestsOpposite ==
    /\ ~mounted => (requestedTheme = NoRequest /\ ToggleTheme(Theme) = Theme)
    /\ themeLast.kind = "placeholderClick" => resolvedTheme = themeLast.before
    /\ themeLast.kind = "click"
          => /\ requestedTheme = (IF themeLast.before = "dark" THEN "light" ELSE "dark")
             /\ resolvedTheme = requestedTheme
    /\ (themeLast.kind = "click" /\ themeLast.prevKind = "click"
          /\ themeLast.before2 \in {"dark", "light"})
          => resolvedTheme = themeLast.before2

\* C25 witness: two consecutive clicks from the light theme are back at light.
C25_Witness ==
    /\ mounted
    /\ themeLast.kind = "click"
    /\ themeLast.prevKind = "click"
    /\ themeLast.before2 = "light"
    /\ themeLast.before = "dark"
    /\ resolvedTheme = "light"

(***************************************************************************)
(* NavBar menu items: scrollspy identifiers and active highlighting         *)
(* (NavBar.tsx 132-148, 207-210; DesktopMenu.tsx 83-95, 129-140;           *)
(* DarkModeToggle.tsx 389-409)                                             *)
(***************************************************************************)

\* A NavBar has at most MaxItems menu items.
MaxItems == 2

\* The hrefs of menu items, each as its sequence of characters: '#a', '#',
\* '/p' and '#a,a'.
HrefUniverse == { <<"#", "a">>, <<"#">>, <<"/", "p">>, <<"#", "a", ",", "a">> }

MenuItemSeqs == SeqsUpTo(HrefUniverse, MaxItems)

\* The string of a sequence of characters.
RECURSIVE ToStr(_)
ToStr(chars) == IF chars = <<>> THEN "" ELSE Head(chars) \o ToStr(Tail(chars))

\* href.startsWith(prefix), for a prefix of one character.
StartsWith(href, prefix) == Len(href) >= 1 /\ href[1] = prefix

\* href.substring(from)
Substring(href, from) == SubSeq(href, from + 1, Len(href))

\* item => item.href.startsWith('#') ? item.href.substring(1) : ''
IdPart(href) == IF StartsWith(href, "#") THEN ToStr(Substring(href, 1)) ELSE ""

\* Variant of ScrollspyItemIds: enableScrollspy is not looked at.
ScrollspyItemIds_IgnoreEnable(items, enabled) ==
    SelectSeq([i \in 1..Len(items) |-> IdPart(items[i])], LAMBDA id : id # "")

\* NavBar 133-139: scrollspyItemIds.
ScrollspyItemIds(items, enabled) ==
    IF enabled
    THEN SelectSeq([i \in 1..Len(items) |-> IdPart(items[i])], LAMBDA id : id # "")
    ELSE <<>>

\* activeSectionId ? ... : false
Truthy(id) == id # Null /\ id # ""

\* Variant of IsActive: the id is compared without the check that it is set.
IsActive_NoNullCheck(activeSectionId, href) == ("#" \o activeSectionId) = ToStr(href)

\* DesktopMenu 92: isActive={activeSectionId ? `#${activeSectionId}` === item.href : false}
IsActive(activeSectionId, href) ==
    IF Truthy(activeSectionId) THEN ("#" \o activeSectionId) = ToStr(href) ELSE FALSE

\* DarkModeToggle 390: the same expression in the mobile menu.
IsActiveMobile(activeSectionId, href) ==
    IF Truthy(activeSectionId) THEN ("#" \o activeSectionId) = ToStr(href) ELSE FALSE

\* NavBar 208: Math.ceil(menuItems.length / 2)
MidPoint(items) == (Len(items) + 1) \div 2

\* NavBar 209-210: menuItems.slice(0, midPoint) and menuItems.slice(midPoint).
LeftMenuItems(items) == SubSeq(items, 1, MidPoint(items))

RightMenuItems(items) == SubSeq(items, MidPoint(items) + 1, Len(items))

\* DesktopMenu 83-95, 138: the items of one desktop part with aria-current='page',
\* by their place in the part.
DesktopMenuPart(items, activeSectionId) ==
    {i \in 1..Len(items) : IsActive(activeSectionId, items[i])}

\* The items marked in the two desktop parts, by their place in menuItems.
DesktopMarked(items, activeSectionId) ==
    DesktopMenuPart(LeftMenuItems(items), activeSectionId)
        \cup {MidPoint(items) + j : j \in DesktopMenuPart(RightMenuItems(items), activeSectionId)}

\* DarkModeToggle 389-409: the items marked in the mobile menu.
MobileMarked(items, activeSectionId) ==
    {i \in 1..Len(items) : IsActiveMobile(activeSectionId, items[i])}

\* The NavBar as first rendered with its menu items.
ItemsInit ==
    /\ menuItems \in MenuItemSeqs
    /\ enableScrollspy \in BOOLEAN
    /\ itemsLast = NoItemsStep
    /\ hasWindow = TRUE
    /\ hasIO = TRUE
    /\ lifecycle = "rendered"
    /\ itemIds = ScrollspyItemIds(menuItems, enableScrollspy)
    /\ options = UndefinedOptions
    /\ activeId = Null
    /\ observerRef = NoObserver
    /\ observedElementsRef = <<>>
    /\ cleanup = FALSE
    /\ orphans = {}
    /\ threw = FALSE
    /\ last = NoStep

InitItems == ItemsInit /\ NavIdle /\ MenuIdle /\ ThemeIdle /\ BandIdle

\* The NavBar renders with new menuItems or enableScrollspy: useMemo recomputes
\* scrollspyItemIds and useScrollspy sees the new sequence.
NavBarRender ==
    /\ lifecycle = "mounted"
    /\ ~threw
    /\ \E items \in MenuItemSeqs, enabled \in BOOLEAN :
         /\ <<items, enabled>> # <<menuItems, enableScrollspy>>
         /\ menuItems' = items
         /\ enableScrollspy' = enabled
         /\ LET ids == ScrollspyItemIds(items, enabled)
            IN  ReInitWith(ids, options) \/ ReRenderWith(ids, options)
    /\ itemsLast' = [kind |-> "render", wasEnabled |-> enableScrollspy, wasActive |-> activeId]
    /\ UNCHANGED <<hasWindow, hasIO, lifecycle>>
    /\ UNCHANGED <<navVars, menuVars, themeVars, bandVars>>

\* The NavBar's steps: the hook's first effect, a render with new props, a
\* batch for the hook, the unmount.
ItemsNext == Mount \/ NavBarRender \/ Deliver \/ Unmount

SpecItems == InitItems /\ [][ItemsNext]_vars

\* The menu items whose href starts with '#' and goes on after it.
HashItems == SelectSeq(menuItems, LAMBDA href : Len(href) >= 2 /\ Head(href) = "#")

\* C26: the sequence handed to useScrollspy is, when enableScrollspy is true,
\* the hrefs that start with '#' and have a non-empty remainder, without the
\* '#', in menu order, and is empty when enableScrollspy is false; while
\* enableScrollspy is false activeId is null and no menu item is marked.
C26_ScrollspyIdsFromHashHrefs ==
    /\ enableScrollspy
          => itemIds = [i \in 1..Len(HashItems) |-> ToStr(Tail(HashItems[i]))]
    /\ ~enableScrollspy
          => /\ itemIds = <<>>
             /\ activeId = Null
             /\ MobileMarked(menuItems, activeId) = {}
             /\ DesktopMarked(menuItems, activeId) = {}

\* C26 witness: a render that set enableScrollspy to false found a non-null
\* activeId and left null, with a hash item in the menu.
C26_Witness ==
    /\ itemsLast.kind = "render"
    /\ itemsLast.wasEnabled
    /\ itemsLast.wasActive # Null
    /\ ~enableScrollspy
    /\ Len(HashItems) >= 1
    /\ activeId = Null

\* The values of activeSectionId the menus are checked with.
ActiveIdUniverse == {Null, "", "a", "a,a"}

\* C27: in the desktop parts and in the mobile menu an item is marked exactly
\* when activeSectionId is neither null nor empty and the item's href is '#'
\* followed by it; both menus mark the same items, and none for null.
C27_SameItemsMarked ==
    \A id \in ActiveIdUniverse \cup {activeId} :
        LET expected == {i \in 1..Len(menuItems) :
                            id # Null /\ id # "" /\ ToStr(menuItems[i]) = "#" \o id}
        IN  /\ DesktopMarked(menuItems, id) = expected
            /\ MobileMarked(menuItems, id) = expected
            /\ id = Null => expected = {}

\* C27 witness: section 'a' is active and the second of two items, '#a', is
\* the one marked in both menus.
C27_Witness ==
    /\ activeId = "a"
    /\ Len(menuItems) = 2
    /\ menuItems[2] = <<"#", "a">>
    /\ DesktopMarked(menuItems, activeId) = {2}
    /\ MobileMarked(menuItems, activeId) = {2}

(***************************************************************************)
(* One session of the hook on a page whose sections enter and leave the    *)
(* activation band (useScrollspy.ts 102-133)                               *)
(***************************************************************************)

\* A hook in a browser, before its first effect, no section intersecting.
BandInit ==
    /\ hasWindow = TRUE
    /\ hasIO = TRUE
    /\ lifecycle = "rendered"
    /\ itemIds \in ItemIdSeqs
    /\ options = UndefinedOptions
    /\ activeId = Null
    /\ observerRef = NoObserver
    /\ observedElementsRef = <<>>
    /\ cleanup = FALSE
    /\ orphans = {}
    /\ threw = FALSE
    /\ last = NoStep
    /\ band = {}

InitBand == BandInit /\ NavIdle /\ MenuIdle /\ ThemeIdle /\ ItemsIdle

\* Some observed sections cross the threshold: the observer delivers one entry
\* for each section whose intersection state changed, with its new state.
BandChange ==
    /\ ~threw
    /\ observerRef.connected
    /\ LET targets == observerRef.targets
       IN  \E present \in (SUBSET (1..Len(targets))) \ {{}}, tops \in [1..Len(targets) -> Tops] :
             LET shape   == [i \in 1..Len(targets) |->
                               [isIntersecting |-> targets[i] \notin band, top |-> tops[i]]]
                 entries == MakeEntries(targets, present, shape)
                 changed == {targets[i] : i \in present}
             IN  /\ Store(ObserverCallback(Hook, entries))
                 /\ last' = [NoStep EXCEPT !.kind = "batch", !.before = activeId,
                               !.inter = NumIntersecting(entries),
                               !.hit = MinTopIds(entries),
                               !.sel = IF MinTopIds(entries) # {}
                                       THEN MinTopIds(entries) ELSE last.sel,
                               !.live = lifecycle = "mounted"]
                 /\ band' = (band \ changed) \cup (changed \ band)
    /\ UNCHANGED <<hasWindow, hasIO, lifecycle, itemIds, options>>
    /\ UNCHANGED <<navVars, menuVars, themeVars, itemVars>>

BandNext == Mount \/ BandChange \/ Unmount

SpecBand == InitBand /\ [][BandNext]_vars

\* C28 (as claimed): while the hook is mounted and some observed section
\* intersects the activation band, activeId is the id of a section that
\* intersects it now.
C28_ActiveIdIntersectsNow ==
    (lifecycle = "mounted" /\ band # {}) => activeId \in band

\* C29: whenever the nav bar is hidden, the latest position is strictly
\* greater than scrollThreshold + scrollTransitionRange; before any sample the
\* bar is visible and the previous position reads as 0.
C29_HiddenOnlyPastHideStart ==
    /\ isHidden => scrollY.current > scrollThreshold + scrollTransitionRange
    /\ navLast.kind = "none" => (~isHidden /\ GetPrevious(scrollY) = 0)

\* C29 witness: the bar is hidden at the first grid position past the
\* hide-start threshold, after a step back of 10 pixels.
C29_Witness ==
    /\ isHidden
    /\ navLast.kind = "scroll"
    /\ navLast.wasHidden
    /\ scrollY.current = scrollThreshold + scrollTransitionRange + 5
    /\ scrollY.prev = scrollY.current + 10

\* The observers created by the hook that are connected now.
ConnectedObservers == Cardinality(orphans) + (IF observerRef.connected THEN 1 ELSE 0)

\* C30: at most one observer created by the hook is connected at any time, and
\* none is connected after the unmount.
C30_AtMostOneObserverConnected ==
    /\ ConnectedObservers <= 1
    /\ lifecycle = "unmounted" => ConnectedObservers = 0
    /\ lifecycle = "rendered" => ConnectedObservers = 0

\* C30 witness: a re-initialization replaced a connected observer by a new
\* one, which is the only one connected.
C30_Witness ==
    /\ last.kind = "render"
    /\ last.ran
    /\ last.observing
    /\ observerRef.connected
    /\ ConnectedObservers = 1

====
